---------------------------- MODULE Spec2Model ----------------------------
(***************************************************************************)
(* The animation loop, the pointer/click handlers and the effect cleanup   *)
(* of src/components/FluidCanvas.tsx (the useEffect at lines 797-1199).    *)
(*                                                                         *)
(* Numbers.  JavaScript doubles are modelled in fixed point:               *)
(*   time                         milliseconds                             *)
(*   speed, hoverVal, click value  1/10000                                 *)
(*   normalized device coordinates 1/1000                                  *)
(*   world lengths                 1/100 of a world unit                   *)
(*   angles                        1/10 of a degree                        *)
(*   Math.random()                 1/1000, a draw r stands for r/1000      *)
(* Pointer rows and the wander draws keep the scene in the plane y = 0;    *)
(* there every quaternion the loop builds is a rotation about the up axis  *)
(* and ws.rotation is represented by its angle.                            *)
(***************************************************************************)
EXTENDS Integers, Sequences, FiniteSets, TLC

VARIABLES
    now,                  \* wall clock (performance.now()), ms
    clock,                \* THREE.Clock: running, oldTime, elapsedTime
    rafQueue,             \* ids of the frame requests not yet run or cancelled
    rafSeq,               \* number of requestAnimationFrame calls so far
    animId,               \* the id kept by the effect (line 1110)
    cleaned,              \* the effect cleanup has run
    mouseRef,             \* pointer in normalized device coordinates
    pointerInside,        \* the pointer is physically over the window
    prevMouseWorldPosRef, \* pointer world position recorded by the last tick
    followRef,            \* follow-mode
    clickStateRef,        \* click pulse: active, value
    clickTimerRef,        \* id of the last expiry timer, 0 for null
    timers,               \* pending setTimeout callbacks: [id, due]
    timerSeq,             \* number of setTimeout calls so far
    lastColorIndexRef,    \* index of the last palette colour, -1 at start
    uClickColor,          \* uniform uClickColor
    clickLog,             \* click events so far, whether the last one hit and when; double-clicks
    squidState,           \* ws: speed, turnSpeed, rotation, position, velocity, ...
    uTurn,                \* uniform uTurn (smoothed turn angle)
    trailIdx,             \* trail write cursor
    trail,                \* trail slots written so far (slot -> particle)
    trailSeq,             \* number of trail emissions so far
    bubbleIdx,            \* bubble write cursor
    bubbles,              \* bubble slots written so far (slot -> particle)
    bubbleSeq,            \* number of bubble emissions so far
    ticks,                \* number of animate() runs so far
    frame,                \* locals of the last animate() run
    events,               \* number of input events dispatched so far
    noise                 \* the noise module: its tables and where its
                          \* evaluation stands

vars == <<now, clock, rafQueue, rafSeq, animId, cleaned, mouseRef, pointerInside,
          prevMouseWorldPosRef, followRef, clickStateRef, clickTimerRef, timers,
          timerSeq, lastColorIndexRef, uClickColor, clickLog, squidState, uTurn,
          trailIdx, trail, trailSeq, bubbleIdx, bubbles, bubbleSeq, ticks, frame,
          events, noise>>

---------------------------------------------------------------------------
(* Bounds of the model.                                                    *)

\* Spec: frames, input events and wall-clock horizon (ms).
MaxTicks == 2
MaxEvents == 2
MaxTime == 4500

\* SpecRing: frames, and the first frames in which the pointer may rest.
MaxRingTicks == 1502
WarmupTicks == 1

\* SpecHover: frames.
MaxHoverTicks == 120

\* SpecBubbles: frames, events and wall-clock horizon (ms).
MaxBubbleTicks == 2
MaxBubbleEvents == 2
MaxBubbleTime == 100

\* SpecDrift: frames and events.
MaxDriftTicks == 104
MaxDriftEvents == 2

\* SpecFlip: frames.
MaxFlipTicks == 6

\* SpecNoise: noise3D calls after the tables are built.
MaxLookups == 2

---------------------------------------------------------------------------
(* Program constants.                                                      *)

\* Capacity of both ring buffers (COUNT, and the literal in "% 3000").
COUNT == 3000
\* Birth time of a slot never written: fill(-1000), in ms.
NEVER_BORN == -1000000
\* The click pulse lasts 3000 ms.
CLICK_MS == 3000

\* The palette of handleClick, colour components in tenths.
CLICK_COLORS == << <<10, 0, 0>>, <<6, 0, 10>>, <<0, 5, 10>>, <<0, 10, 5>> >>

\* The initial value of the uClickColor uniform.
InitialClickColor == <<10, 5, 0>>

\* The browser window (the camera's aspect is innerWidth / innerHeight).
window == [innerWidth |-> 1000, innerHeight |-> 1000]

\* camera.position
camera == [x |-> 0, y |-> 0, z |-> 6000]

---------------------------------------------------------------------------
(* Arithmetic.                                                             *)

Abs(x) == IF x < 0 THEN -x ELSE x
Min(a, b) == IF a < b THEN a ELSE b
Max(a, b) == IF a > b THEN a ELSE b

\* n / d rounded to the nearest integer (d > 0).
Round(n, d) == (2 * n + d) \div (2 * d)

RECURSIVE SqrtIter(_, _)
SqrtIter(n, x) ==
    LET y == (x + n \div x) \div 2
    IN  IF y >= x THEN x ELSE SqrtIter(n, y)

\* Math.sqrt, floored.
ISqrt(n) == IF n < 2 THEN n ELSE SqrtIter(n, n)

\* A blend that moves twice as far.
BlendDouble(a, b, pct) == a + Round((b - a) * pct * 2, 100)

\* a + (b - a) * t for a blend factor of pct/100 (Vector3.lerp, MathUtils.lerp
\* and the "+= (target - x) * f" updates).
Blend(a, b, pct) == a + Round((b - a) * pct, 100)

Vec(x, y, z) == [x |-> x, y |-> y, z |-> z]

\* Vector3.distanceTo, in 1/100 world units.
DistanceTo(a, b) ==
    ISqrt((a.x - b.x) * (a.x - b.x) + (a.y - b.y) * (a.y - b.y)
          + (a.z - b.z) * (a.z - b.z))

\* An angle brought into 0..3599.
Norm360(a) == a % 3600

\* The signed difference b - a of two angles, in -1799..1800.
AngleDiff(a, b) ==
    LET d == (b - a) % 3600
    IN  IF d > 1800 THEN d - 3600 ELSE d

\* 1000 * sin(a) for a in 0..1800.
SinHalf(a) ==
    LET p == a * (1800 - a)
    IN  (1000 * p) \div ((4050000 - p) \div 4)

\* 1000 * Math.sin of an angle.
Sin(a) ==
    LET b == Norm360(a)
    IN  IF b <= 1800 THEN SinHalf(b) ELSE -SinHalf(b - 1800)

\* 1000 * Math.cos of an angle.
Cos(a) == Sin(a + 900)

\* Math.atan of t/1000 for 0 <= t <= 1000, an angle in 0..450.
AtanUnit(t) == (450 * t + (156 * t * (1000 - t)) \div 1000 + 500) \div 1000

\* Math.atan2(x, z): the angle about the up axis of the direction (x, 0, z),
\* measured from +Z towards +X.  (0, 0) gives 0.
Atan2(x, z) ==
    LET ax == Abs(x)
        az == Abs(z)
        a  == IF ax = 0 /\ az = 0 THEN 0
              ELSE IF ax <= az THEN AtanUnit((1000 * ax) \div az)
              ELSE 900 - AtanUnit((1000 * az) \div ax)
    IN  IF z >= 0 THEN (IF x >= 0 THEN a ELSE Norm360(-a))
        ELSE (IF x >= 0 THEN 1800 - a ELSE 1800 + a)


---------------------------------------------------------------------------
(* The camera: PerspectiveCamera(45, innerWidth / innerHeight) at z = 60.  *)
(* tan(22.5 deg) = 0.41421.                                                *)

\* Vector3.project(camera), x and y in 1/1000.  Behind the camera plane
\* (w < 0) the division flips the sign, as the matrix does; the plane itself
\* (a divisor of exactly 0, a null set in doubles) is taken as the nearest
\* point in front of it.
Project(p) ==
    LET w  == camera.z - p.z
        dy == (41421 * w) \div 100000
        dx == (dy * window.innerWidth) \div window.innerHeight
        Q(n, d) == IF d > 0 THEN Round(n * 1000, d)
                   ELSE IF d < 0 THEN Round(-n * 1000, -d)
                   ELSE n * 1000
    IN  [x |-> Q(p.x, dx), y |-> Q(p.y, dy)]

\* isMouseActive (line 935)
IsMouseActive(m) == Abs(m.x) <= 1000 /\ Abs(m.y) <= 1000

\* Lines 937-946: the pointer unprojected onto the plane z = 0, or the origin
\* when the pointer is not active.
MouseWorldPos(m) ==
    IF IsMouseActive(m)
    THEN Vec(Round(Round(m.x * 24853, 10000) * window.innerWidth, window.innerHeight),
             Round(m.y * 24853, 10000),
             0)
    ELSE Vec(0, 0, 0)

\* Lines 927-930: hover proximity, max(0, 1 - mouseDist * 1.2), in 1/10000.
\* A distance above 1 on either axis already gives 0.
HoverStrength(pos, m) ==
    LET ndc == Project(pos)
        dx  == ndc.x - m.x
        dy  == ndc.y - m.y
    IN  IF Abs(dx) > 1000 \/ Abs(dy) > 1000 THEN 0
        ELSE Max(0, 10000 - 12 * ISqrt(dx * dx + dy * dy))

---------------------------------------------------------------------------
(* THREE.Clock, as animate() uses it (lines 908-909).                      *)

\* clock.getDelta(): the first call starts the clock and returns 0.
ClockDelta(c, t) == IF c.running THEN t - c.oldTime ELSE 0

\* The clock after getDelta() and getElapsedTime().
ClockAfter(c, t) ==
    [running |-> TRUE, oldTime |-> t,
     elapsedTime |-> IF c.running THEN c.elapsedTime + (t - c.oldTime) ELSE 0]

---------------------------------------------------------------------------
(* Ring buffers.  A buffer is the function from the slots written so far   *)
(* to their particles; every other slot still holds its initial content.   *)

\* A particle: its emission number (1 for the first emission into its
\* buffer), then aBirthTime, position x, y, z and, for a bubble, aSize.
Particle(seq, birth, pos) == <<seq, birth, pos.x, pos.y, pos.z>>
Bubble(seq, birth, pos, size) == <<seq, birth, pos.x, pos.y, pos.z, size>>
SeqOf(particle) == particle[1]
BirthTimeOf(particle) == particle[2]
PosOf(particle) == Vec(particle[3], particle[4], particle[5])
SizeOf(particle) == particle[6]

\* The cursor step without the wrap.
AdvanceNoWrap(idx) == idx + 1

\* The write cursor after one emission: idx = (idx + 1) % 3000.
Advance(idx) == (idx + 1) % COUNT

\* A write that is dropped when the slot is taken.
PutIfFree(buf, i, particle) == IF i \in DOMAIN buf THEN buf ELSE (i :> particle) @@ buf

\* The buffer with slot i overwritten.
Put(buf, i, particle) == (i :> particle) @@ buf

\* aBirthTime of slot i.
BirthOf(buf, i) == IF i \in DOMAIN buf THEN BirthTimeOf(buf[i]) ELSE NEVER_BORN

\* trailVertexShader, line 307: life = 1.0 - (uTime - aBirthTime) * 0.5, in
\* 1/2000.
TrailLife(uTime, aBirthTime) == 2000 - (uTime - aBirthTime)

\* bubbleVertexShader, line 339: life = 1.0 - (uTime - aBirthTime) * 4.0, in
\* 1/250.
BubbleLife(uTime, aBirthTime) == 250 - (uTime - aBirthTime)

\* A point drawn unless its vertex is clipped.
DrawnUnlessClipped(life) == ~(life < 0)

\* Lines 310-313 and 324 (trail), 342-345 and the bubble fragment shader:
\* the vertex is clipped when life < 0.0, the fragment discarded when
\* vLife <= 0.0.
Drawn(life) == ~(life < 0) /\ ~(life <= 0)

\* (Math.random() - 0.5) * amp for a draw r; amp in 1/100 world units.
Jitter(r, amp) == Round((r - 500) * amp, 1000)

\* Lines 950-951: pointer speed distMoved / dt, kept as the fraction n / d in
\* 1/100 world units per second.  dt = 0 divides by zero: Infinity for a
\* pointer that moved, NaN for one that did not.
BubbleSpeed(distMoved, dt) ==
    IF dt = 0
    THEN (IF distMoved = 0 THEN [kind |-> "NaN", n |-> 0, d |-> 0]
          ELSE [kind |-> "Infinity", n |-> distMoved, d |-> 0])
    ELSE [kind |-> "number", n |-> distMoved * 1000, d |-> dt]

\* The count without the cap of 10.
EmissionCountUncapped(speed) ==
    IF speed.kind = "NaN" THEN 0
    ELSE IF speed.kind = "Infinity" THEN 10
    ELSE IF speed.n > 200 * speed.d THEN speed.n \div (1000 * speed.d)
    ELSE 0

\* Lines 954-956: 0 unless speed > 2.0, else min(10, floor(speed * 0.1)).
\* NaN > 2.0 is false; Math.min(10, Infinity) is 10.
EmissionCount(speed) ==
    IF speed.kind = "NaN" THEN 0
    ELSE IF speed.kind = "Infinity" THEN 10
    ELSE IF speed.n > 200 * speed.d THEN Min(10, speed.n \div (1000 * speed.d))
    ELSE 0

\* An emitter that runs whenever the pointer is active.
EmitsWhenActive(isMouseActive, follow) == isMouseActive

\* Line 949: whether the bubble emitter runs in this tick.
Emits(isMouseActive, follow) == isMouseActive /\ follow

\* MathUtils.lerp(a, b, k / n)
LerpK(a, b, k, n) == a + Round((b - a) * k, n)

\* Lines 958-974: bubbles k..n-1 of a tick, written from cursor idx on.
RECURSIVE EmitBubbles(_, _, _, _, _, _, _, _, _)
EmitBubbles(buf, idx, seq, k, n, prev, cur, time, rnd) ==
    IF k >= n THEN [buf |-> buf, idx |-> idx, seq |-> seq]
    ELSE LET i      == Advance(idx)
             jitter == 50 + rnd.amp \div 10
             p      == Vec(LerpK(prev.x, cur.x, k, n) + Jitter(rnd.jit, jitter),
                           LerpK(prev.y, cur.y, k, n) + Jitter(rnd.jit, jitter),
                           LerpK(prev.z, cur.z, k, n) + Jitter(rnd.jit, jitter))
             b      == Bubble(seq + 1, time, p, 200 + (rnd.size * 4) \div 10)
         IN  EmitBubbles(Put(buf, i, b), i, seq + 1, k + 1, n, prev, cur, time, rnd)

\* Lines 1090-1096: trail particles k..1 of a tick.
RECURSIVE EmitTrail(_, _, _, _, _, _, _)
EmitTrail(buf, idx, seq, k, tail, time, rnd) ==
    IF k >= 2 THEN [buf |-> buf, idx |-> idx, seq |-> seq]
    ELSE LET i == Advance(idx)
             p == Vec(tail.x + Jitter(rnd.jit, 150),
                      tail.y + Jitter(rnd.jit, 150),
                      tail.z + Jitter(rnd.jit, 150))
         IN  EmitTrail(Put(buf, i, Particle(seq + 1, time, p)),
                       i, seq + 1, k + 1, tail, time, rnd)

---------------------------------------------------------------------------
(* Steering (lines 982-1083).                                              *)

\* Vector3.distanceTo squared, in 1/10000.
DistanceSq(a, b) ==
    (a.x - b.x) * (a.x - b.x) + (a.y - b.y) * (a.y - b.y) + (a.z - b.z) * (a.z - b.z)

\* Lines 987-994: the speed tier while following, from the squared distance
\* to the pointer (the comparisons with 20 and 10 are exact on squares).
FollowSpeedSq(distSq) ==
    IF distSq > 2000 * 2000 THEN 16000
    ELSE IF distSq < 1000 * 1000 THEN 5000
    ELSE 12000

\* Tiers that count a distance of exactly 20 as far.
FollowSpeedInclusive(distToMouse) ==
    IF distToMouse >= 2000 THEN 16000
    ELSE IF distToMouse < 1000 THEN 5000
    ELSE 12000

\* Lines 987-994: the speed tier while following, from the distance to the
\* pointer in 1/100 world units.
FollowSpeed(distToMouse) == FollowSpeedSq(distToMouse * distToMouse)

\* Lines 1000-1016: a new wander target from the draws r, then x, y, z.
WanderTarget(rnd) ==
    IF rnd.wander < 250
    THEN Vec((rnd.wx - 500) * 3, (rnd.wy - 500) * 2, 5000 + rnd.wz \div 2)
    ELSE Vec((rnd.wx - 500) * 12, (rnd.wy - 500) * 7, rnd.wz * 16 - 10000)

\* No cap.
HoverCapOff(hoverVal, targetSpeed) == targetSpeed

\* Lines 1020-1021: the hover cap on the target speed.
HoverCap(hoverVal, targetSpeed) ==
    IF hoverVal > 6000 THEN Min(targetSpeed, 6000) ELSE targetSpeed

\* A burst that does not wait for the timer.
BurstsAnytime(hoverVal, isMouseActive, follow, burstTimer, r) ==
    /\ ~(hoverVal > 6000)
    /\ ~isMouseActive /\ follow
    /\ r < 10

\* Lines 1022-1027: whether this tick bursts.
Bursts(hoverVal, isMouseActive, follow, burstTimer, r) ==
    /\ ~(hoverVal > 6000)
    /\ ~isMouseActive /\ follow
    /\ burstTimer > 5000 /\ r < 10

\* The smoothing at 1 % a frame.
SmoothSpeedSlow(speed, targetSpeed) == Blend(speed, targetSpeed, 1)

\* A smoothing by a factor of 3, which passes its target.
SmoothSpeedPast(speed, targetSpeed) == Blend(speed, targetSpeed, 300)

\* Line 1029: ws.speed += (targetSpeed - ws.speed) * 0.05
SmoothSpeed(speed, targetSpeed) == Blend(speed, targetSpeed, 5)

\* Line 1035: the angle of normalize(target - position); the zero vector
\* (target = position) stays zero and has no angle.
DirectionAngle(position, target) == Atan2(target.x - position.x, target.z - position.z)

\* Line 1041: prevFwd.angleTo(direction), pi/2 for the zero vector.
TurnAngle(rotation, position, target) ==
    IF target.x = position.x /\ target.z = position.z THEN 900
    ELSE Abs(AngleDiff(rotation, DirectionAngle(position, target)))

\* Line 1054: prevFwd.dot(direction), in 1/1000.
ForwardDot(rotation, position, target) ==
    IF target.x = position.x /\ target.z = position.z THEN 0
    ELSE Cos(TurnAngle(rotation, position, target))

\* Lines 1055-1062: idealQ, as the signed turn from ws.rotation to it.
\* Antiparallel: half a turn about the up axis.  Otherwise the rotation
\* taking +Z to the direction (the identity for the zero vector).
IdealTurn(rotation, position, target) ==
    IF ForwardDot(rotation, position, target) < -990 THEN 1800
    ELSE IF target.x = position.x /\ target.z = position.z THEN AngleDiff(rotation, 0)
    ELSE AngleDiff(rotation, DirectionAngle(position, target))

\* Lines 1049-1050 and 1064: ws.rotation.slerp(idealQ, effectiveTurnSpeed),
\* turnSpeed in 1/1000.
Slerp(rotation, position, target, turnSpeed) ==
    LET angle     == TurnAngle(rotation, position, target)
        effective == IF angle > 572 THEN turnSpeed \div 2 ELSE turnSpeed
    IN  Norm360(rotation + Round(IdealTurn(rotation, position, target) * effective, 1000))

\* (0, 0, 1).applyQuaternion(rotation), in 1/1000.
Forward(rotation) == Vec(Sin(rotation), 0, Cos(rotation))

\* Lines 1071-1077: velocity.lerp(thrustDir * speed * 8.0, 0.05)
Drift(velocity, rotation, speed) ==
    LET f == Forward(rotation)
        D(c) == Round(c * speed * 8, 100000)
    IN  Vec(Blend(velocity.x, D(f.x), 5), Blend(velocity.y, D(f.y), 5),
            Blend(velocity.z, D(f.z), 5))

\* Line 1080: position.add(velocity * dt)
Move(position, velocity, dt) ==
    Vec(position.x + Round(velocity.x * dt, 1000),
        position.y + Round(velocity.y * dt, 1000),
        position.z + Round(velocity.z * dt, 1000))

\* The point 8 units ahead of the creature.
TailPointAhead(position, rotation) ==
    LET f == Forward(rotation)
    IN  Vec(position.x + Round(800 * f.x, 1000), position.y + Round(800 * f.y, 1000),
            position.z + Round(800 * f.z, 1000))

\* Lines 1086-1088: the tail point, (0, 0, -8) rotated and moved to the creature.
TailPoint(position, rotation) ==
    LET f == Forward(rotation)
    IN  Vec(position.x - Round(800 * f.x, 1000), position.y - Round(800 * f.y, 1000),
            position.z - Round(800 * f.z, 1000))

---------------------------------------------------------------------------
(* The state after the effect has run (lines 393-408, 797-1110, 1176-1179). *)

---------------------------------------------------------------------------
(* The noise module (src/unnamed/part_000).  No source file of the         *)
(* component imports it: in the scenarios of the component its evaluation  *)
(* has not started and nothing steps it.  SpecNoise steps it on its own.   *)

\* Lines 6-7 and 15: the zero-filled typed arrays and the seed, before the
\* first loop.  pc tells which loop runs and i is its counter; used holds
\* the indices at which the last noise3D call read PERM.
NoiseStart ==
    [pc |-> "fill", i |-> 0, seed |-> 12345, P |-> [k \in 0 .. 255 |-> 0],
     PERM |-> [k \in 0 .. 511 |-> 0], used |-> {}, calls |-> 0]

\* Line 17: (seed * 16807) % 2147483647.  The product is below 2^53 and
\* exact in the code; here it is split (127773 = 2147483647 \div 16807,
\* 2836 = 2147483647 % 16807) so that no intermediate value exceeds 2^31,
\* which gives the same number.
LcgNext(seed) ==
    LET t == 16807 * (seed % 127773) - 2836 * (seed \div 127773)
    IN  IF t > 0 THEN t ELSE t + 2147483647

\* s * k as q * 2147483646 + r with 0 <= r < 2147483646, by doubling.
RECURSIVE MulQR(_, _)
MulQR(s, k) ==
    IF k = 0 THEN [q |-> 0, r |-> 0]
    ELSE LET h     == MulQR(s, k \div 2)
             carry == h.r >= 2147483646 - h.r
             d     == [q |-> 2 * h.q + (IF carry THEN 1 ELSE 0),
                       r |-> IF carry THEN h.r - (2147483646 - h.r) ELSE 2 * h.r]
             over  == d.r >= 2147483646 - s
         IN  IF k % 2 = 0 THEN d
             ELSE [q |-> d.q + (IF over THEN 1 ELSE 0),
                   r |-> IF over THEN d.r - (2147483646 - s) ELSE d.r + s]

\* Lines 18 and 22: Math.floor(random() * (i + 1)) for the seed just drawn,
\* random() being (seed - 1) / 2147483646.
RandomIndex(seed, i) == MulQR(seed - 1, i + 1).q

\* A swap that loses the element it overwrites.
SwapLost(P, i, r) == [P EXCEPT ![i] = P[r]]

\* Lines 23-25: t = P[i]; P[i] = P[r]; P[r] = t.
Swap(P, i, r) == [P EXCEPT ![i] = P[r], ![r] = P[i]]

\* n & 255 for an integer n.
And255(n) == n % 256

\* Lines 10-12: one iteration of the loop that fills P.
NoiseFill ==
    /\ noise.pc = "fill"
    /\ noise' = IF noise.i < 256
                THEN [noise EXCEPT !.P[noise.i] = noise.i, !.i = @ + 1]
                ELSE [noise EXCEPT !.pc = "shuffle", !.i = 255]

\* Lines 21-26: one iteration of the shuffle.
NoiseShuffle ==
    /\ noise.pc = "shuffle"
    /\ noise' = IF noise.i > 0
                THEN LET seed == LcgNext(noise.seed)
                     IN  [noise EXCEPT !.seed = seed,
                                       !.P = Swap(@, noise.i, RandomIndex(seed, noise.i)),
                                       !.i = @ - 1]
                ELSE [noise EXCEPT !.pc = "copy", !.i = 0]

\* Lines 28-30: one iteration of the loop that fills PERM.
NoiseCopy ==
    /\ noise.pc = "copy"
    /\ noise' = IF noise.i < 512
                THEN [noise EXCEPT !.PERM[noise.i] = noise.P[And255(noise.i)],
                                   !.i = @ + 1]
                ELSE [noise EXCEPT !.pc = "ready"]

\* An argument of noise3D: a finite number with the given Math.floor, or
\* NaN or an infinity.
Num(n) == [kind |-> "number", floor |-> n]
NotFinite == [kind |-> "NaN", floor |-> 0]

\* Lines 43-45: Math.floor(x) & 255; the bit operation takes NaN and the
\* infinities to 0.
Cell(x) == IF x.kind = "number" THEN And255(x.floor) ELSE 0

\* A read of PERM; a typed array gives undefined outside its range, which
\* the arithmetic that follows turns into NaN (shown as -1).
PermAt(PERM, i) == IF i \in DOMAIN PERM THEN PERM[i] ELSE -1

\* Lines 55-74: the indices at which noise3D(x, y, z) reads PERM.
LookupIndices(PERM, x, y, z) ==
    LET X  == Cell(x)
        Y  == Cell(y)
        Z  == Cell(z)
        A  == PermAt(PERM, X) + Y
        AA == PermAt(PERM, A) + Z
        AB == PermAt(PERM, A + 1) + Z
        B  == PermAt(PERM, X + 1) + Y
        BA == PermAt(PERM, B) + Z
        BB == PermAt(PERM, B + 1) + Z
    IN  {X, A, A + 1, X + 1, B, B + 1, AA, BA, AB, BB, AA + 1, BA + 1, AB + 1, BB + 1}

\* noise3D, lines 42-75, once the module is evaluated.
Noise3D(x, y, z) ==
    /\ noise.pc = "ready"
    /\ noise' = [noise EXCEPT !.used = LookupIndices(noise.PERM, x, y, z),
                              !.calls = @ + 1]

\* squidState, lines 399-408
InitSquid ==
    [speed |-> 10000, turnSpeed |-> 30, rotation |-> 0,
     position |-> Vec(0, 0, 0), velocity |-> Vec(0, 0, 0),
     target |-> Vec(4000, 0, 0), hoverVal |-> 0, burstTimer |-> 0]

\* No frame has run yet.
InitFrame ==
    [dt |-> 0, time |-> 0, isMouseActive |-> FALSE, following |-> FALSE,
     follow |-> TRUE, mouse |-> [x |-> 999000, y |-> 999000], burstDraw |-> 0,
     burstTimer |-> 0, lastBurst |-> -1, bursts |-> 0,
     speedKind |-> "none",
     pointerInside |-> FALSE, mouseWorldPos |-> Vec(0, 0, 0),
     prevMouseWorldPos |-> Vec(0, 0, 0), emissionCount |-> 0, distToMouse |-> 0,
     baseSpeed |-> 0, targetSpeed |-> 0, speedIn |-> 0, burst |-> FALSE,
     angle |-> 0, dot |-> 0, rotationIn |-> 0, tail |-> Vec(0, 0, 0),
     afterCleanup |-> FALSE]

\* Everything but the steering state and the frame locals.
InitRefs ==
    /\ now = 0
    /\ clock = [running |-> FALSE, oldTime |-> 0, elapsedTime |-> 0]
    /\ rafQueue = {1}
    /\ rafSeq = 1
    /\ animId = 1
    /\ cleaned = FALSE
    /\ mouseRef = [x |-> 999000, y |-> 999000]
    /\ pointerInside = FALSE
    /\ prevMouseWorldPosRef = Vec(0, 0, 0)
    /\ followRef = TRUE
    /\ clickStateRef = [active |-> FALSE, value |-> 0]
    /\ clickTimerRef = 0
    /\ timers = {}
    /\ timerSeq = 0
    /\ lastColorIndexRef = -1
    /\ uClickColor = InitialClickColor
    /\ clickLog = [n |-> 0, hit |-> FALSE, hitAt |-> 0, dbl |-> 0]
    /\ uTurn = 0
    /\ trailIdx = 0
    /\ trail = << >>
    /\ trailSeq = 0
    /\ bubbleIdx = 0
    /\ bubbles = << >>
    /\ bubbleSeq = 0
    /\ ticks = 0
    /\ events = 0
    /\ noise = NoiseStart

Init == InitRefs /\ squidState = InitSquid /\ frame = InitFrame

---------------------------------------------------------------------------
(* animate(), lines 907-1108: one frame.  f is the frame request that runs; *)
(* rnd holds the frame's Math.random() draws.                               *)

Animate(f, rnd) ==
    LET ws            == squidState
        dt            == ClockDelta(clock, now)
        clockNow      == ClockAfter(clock, now)
        time          == clockNow.elapsedTime
        \* lines 918-920
        clickTarget   == IF clickStateRef.active THEN 10000 ELSE 0
        clickValue    == Blend(clickStateRef.value, clickTarget, 10)
        \* lines 926-931
        hoverVal      == Blend(ws.hoverVal, HoverStrength(ws.position, mouseRef), 10)
        \* lines 933-946
        burstTimer    == ws.burstTimer + dt
        isMouseActive == IsMouseActive(mouseRef)
        mouseWorldPos == MouseWorldPos(mouseRef)
        \* lines 949-978
        emits         == Emits(isMouseActive, followRef)
        bubbleSpeed   == BubbleSpeed(DistanceTo(mouseWorldPos, prevMouseWorldPosRef), dt)
        emissionCount == IF emits THEN EmissionCount(bubbleSpeed) ELSE 0
        bub           == EmitBubbles(bubbles, bubbleIdx, bubbleSeq, 0, emissionCount,
                                     prevMouseWorldPosRef, mouseWorldPos, time, rnd)
        \* lines 983-1018
        following     == followRef /\ isMouseActive
        target        == IF following THEN mouseWorldPos
                         ELSE IF DistanceTo(ws.position, ws.target) < 1000
                              THEN WanderTarget(rnd)
                              ELSE ws.target
        turnSpeed     == IF following THEN 120 ELSE 30
        distToMouse   == DistanceTo(ws.position, mouseWorldPos)
        baseSpeed     == IF following
                         THEN FollowSpeedSq(DistanceSq(ws.position, mouseWorldPos))
                         ELSE 8000
        \* lines 1020-1029
        targetSpeed   == HoverCap(hoverVal, baseSpeed)
        burst         == Bursts(hoverVal, isMouseActive, followRef, burstTimer, rnd.burst)
        speedIn       == IF burst THEN 25000 ELSE ws.speed
        speed         == SmoothSpeed(speedIn, targetSpeed)
        \* lines 1035-1064
        angle         == TurnAngle(ws.rotation, ws.position, target)
        rotation      == Slerp(ws.rotation, ws.position, target, turnSpeed)
        \* lines 1066-1080
        velocity      == Drift(ws.velocity, rotation, speed)
        position      == Move(ws.position, velocity, dt)
        \* lines 1085-1098
        tail          == TailPoint(position, rotation)
        trl           == EmitTrail(trail, trailIdx, trailSeq, 0, tail, time, rnd)
    IN  /\ f \in rafQueue
        /\ clock' = clockNow
        /\ clickStateRef' = [clickStateRef EXCEPT !.value = clickValue]
        /\ bubbles' = bub.buf
        /\ bubbleIdx' = bub.idx
        /\ bubbleSeq' = bub.seq
        /\ prevMouseWorldPosRef' = mouseWorldPos
        /\ squidState' = [speed |-> speed, turnSpeed |-> turnSpeed,
                          rotation |-> rotation, position |-> position,
                          velocity |-> velocity, target |-> target,
                          hoverVal |-> hoverVal,
                          burstTimer |-> IF burst THEN 0 ELSE burstTimer]
        /\ uTurn' = Blend(uTurn, angle, 10)
        /\ trail' = trl.buf
        /\ trailIdx' = trl.idx
        /\ trailSeq' = trl.seq
        \* line 1107: requestAnimationFrame(animate)
        /\ rafSeq' = rafSeq + 1
        /\ rafQueue' = (rafQueue \ {f}) \cup {rafSeq + 1}
        /\ ticks' = ticks + 1
        /\ frame' = [dt |-> dt, time |-> time, isMouseActive |-> isMouseActive,
                     following |-> following, follow |-> followRef,
                     mouse |-> mouseRef, burstDraw |-> rnd.burst,
                     burstTimer |-> burstTimer,
                     lastBurst |-> IF burst THEN time ELSE frame.lastBurst,
                     bursts |-> frame.bursts + (IF burst THEN 1 ELSE 0),
                     speedKind |-> IF emits THEN bubbleSpeed.kind ELSE "none",
                     pointerInside |-> pointerInside,
                     mouseWorldPos |-> mouseWorldPos,
                     prevMouseWorldPos |-> prevMouseWorldPosRef,
                     emissionCount |-> emissionCount, distToMouse |-> distToMouse,
                     baseSpeed |-> baseSpeed,
                     targetSpeed |-> targetSpeed, speedIn |-> speedIn,
                     burst |-> burst, angle |-> angle,
                     dot |-> ForwardDot(ws.rotation, ws.position, target),
                     rotationIn |-> ws.rotation, tail |-> tail,
                     afterCleanup |-> cleaned]
        /\ UNCHANGED <<noise, now, animId, cleaned, mouseRef, pointerInside, followRef,
                       clickTimerRef, timers, timerSeq, lastColorIndexRef,
                       uClickColor, clickLog, events>>

---------------------------------------------------------------------------
(* The event handlers (lines 1112-1168) and the timer callback.            *)

\* handleMouseMove, lines 1112-1120.  A mousemove event also tells that the
\* pointer is over the window.
HandleMouseMove(clientX, clientY) ==
    /\ ~cleaned
    /\ mouseRef' = [x |-> Round(clientX * 2000, window.innerWidth) - 1000,
                    y |-> 1000 - Round(clientY * 2000, window.innerHeight)]
    /\ pointerInside' = TRUE
    /\ events' = events + 1
    /\ UNCHANGED <<noise, now, clock, rafQueue, rafSeq, animId, cleaned,
                   prevMouseWorldPosRef, followRef, clickStateRef, clickTimerRef,
                   timers, timerSeq, lastColorIndexRef, uClickColor, clickLog,
                   squidState, uTurn, trailIdx, trail, trailSeq, bubbleIdx, bubbles,
                   bubbleSeq, ticks, frame>>

\* The pointer leaves the window.  No handler is registered for it
\* (lines 1176-1179 register mousemove, click, dblclick and resize only).
PointerLeave ==
    /\ pointerInside
    /\ pointerInside' = FALSE
    /\ events' = events + 1
    /\ UNCHANGED <<noise, now, clock, rafQueue, rafSeq, animId, cleaned, mouseRef,
                   prevMouseWorldPosRef, followRef, clickStateRef, clickTimerRef,
                   timers, timerSeq, lastColorIndexRef, uClickColor, clickLog,
                   squidState, uTurn, trailIdx, trail, trailSeq, bubbleIdx, bubbles,
                   bubbleSeq, ticks, frame>>

\* A single draw, without the do-while.
AnyColorIndexes(last) == 0 .. Len(CLICK_COLORS) - 1

\* Lines 1143-1146: the do-while draws until the index differs from the last.
NewColorIndexes(last) == {i \in 0 .. Len(CLICK_COLORS) - 1 : i # last}

\* No clearTimeout before the new setTimeout.
KeepClickTimer(pending, ref) == pending

\* Lines 1154-1157: clearTimeout(clickTimerRef.current) when it is set.
ClearClickTimer(pending, ref) ==
    IF ref # 0 THEN {t \in pending : t.id # ref} ELSE pending

\* handleClick raising the pulse before the hit test.
HandleClickEager(intersects, newIndex) ==
    /\ ~cleaned
    /\ events' = events + 1
    /\ clickLog' = [clickLog EXCEPT !.n = @ + 1, !.hit = intersects,
                                    !.hitAt = IF intersects THEN now ELSE @]
    /\ clickStateRef' = [clickStateRef EXCEPT !.active = TRUE]
    /\ IF intersects
       THEN /\ newIndex \in NewColorIndexes(lastColorIndexRef)
            /\ lastColorIndexRef' = newIndex
            /\ uClickColor' = CLICK_COLORS[newIndex + 1]
            /\ timers' = ClearClickTimer(timers, clickTimerRef)
                            \cup {[id |-> timerSeq + 1, due |-> now + CLICK_MS]}
            /\ clickTimerRef' = timerSeq + 1
            /\ timerSeq' = timerSeq + 1
       ELSE UNCHANGED <<lastColorIndexRef, uClickColor, timers, clickTimerRef, timerSeq>>
    /\ UNCHANGED <<noise, now, clock, rafQueue, rafSeq, animId, cleaned, mouseRef,
                   pointerInside, prevMouseWorldPosRef, followRef, squidState, uTurn,
                   trailIdx, trail, trailSeq, bubbleIdx, bubbles, bubbleSeq, ticks,
                   frame>>

\* handleClick, lines 1123-1163.  intersects is whether the raycast against
\* the creature's points returned a hit; newIndex is what the colour draw
\* ended on.
HandleClick(intersects, newIndex) ==
    /\ ~cleaned
    /\ events' = events + 1
    /\ clickLog' = [clickLog EXCEPT !.n = @ + 1, !.hit = intersects,
                                    !.hitAt = IF intersects THEN now ELSE @]
    /\ IF intersects
       THEN /\ newIndex \in NewColorIndexes(lastColorIndexRef)
            /\ clickStateRef' = [clickStateRef EXCEPT !.active = TRUE]
            /\ lastColorIndexRef' = newIndex
            /\ uClickColor' = CLICK_COLORS[newIndex + 1]
            /\ timers' = ClearClickTimer(timers, clickTimerRef)
                            \cup {[id |-> timerSeq + 1, due |-> now + CLICK_MS]}
            /\ clickTimerRef' = timerSeq + 1
            /\ timerSeq' = timerSeq + 1
       ELSE UNCHANGED <<clickStateRef, lastColorIndexRef, uClickColor, timers,
                        clickTimerRef, timerSeq>>
    /\ UNCHANGED <<noise, now, clock, rafQueue, rafSeq, animId, cleaned, mouseRef,
                   pointerInside, prevMouseWorldPosRef, followRef, squidState, uTurn,
                   trailIdx, trail, trailSeq, bubbleIdx, bubbles, bubbleSeq, ticks,
                   frame>>

\* An expiry callback that also resets the smoothed value.
ClickExpiryResets(t) ==
    /\ t \in timers
    /\ now >= t.due
    /\ timers' = timers \ {t}
    /\ clickStateRef' = [active |-> FALSE, value |-> 0]
    /\ UNCHANGED <<noise, now, clock, rafQueue, rafSeq, animId, cleaned, mouseRef,
                   pointerInside, prevMouseWorldPosRef, followRef, clickTimerRef,
                   timerSeq, lastColorIndexRef, uClickColor, clickLog, squidState,
                   uTurn, trailIdx, trail, trailSeq, bubbleIdx, bubbles, bubbleSeq,
                   ticks, frame, events>>

\* Lines 1159-1161: the expiry callback of timer t.
ClickExpiry(t) ==
    /\ t \in timers
    /\ now >= t.due
    /\ timers' = timers \ {t}
    /\ clickStateRef' = [clickStateRef EXCEPT !.active = FALSE]
    /\ UNCHANGED <<noise, now, clock, rafQueue, rafSeq, animId, cleaned, mouseRef,
                   pointerInside, prevMouseWorldPosRef, followRef, clickTimerRef,
                   timerSeq, lastColorIndexRef, uClickColor, clickLog, squidState,
                   uTurn, trailIdx, trail, trailSeq, bubbleIdx, bubbles, bubbleSeq,
                   ticks, frame, events>>

\* A double-click that switches follow-mode off whatever it was.
HandleDblClickOff ==
    /\ ~cleaned
    /\ followRef' = FALSE
    /\ clickLog' = [clickLog EXCEPT !.dbl = @ + 1]
    /\ events' = events + 1
    /\ UNCHANGED <<noise, now, clock, rafQueue, rafSeq, animId, cleaned, mouseRef,
                   pointerInside, prevMouseWorldPosRef, clickStateRef, clickTimerRef,
                   timers, timerSeq, lastColorIndexRef, uClickColor,
                   squidState, uTurn, trailIdx, trail, trailSeq, bubbleIdx, bubbles,
                   bubbleSeq, ticks, frame>>

\* handleDblClick, lines 1165-1168
HandleDblClick ==
    /\ ~cleaned
    /\ followRef' = ~followRef
    /\ clickLog' = [clickLog EXCEPT !.dbl = @ + 1]
    /\ events' = events + 1
    /\ UNCHANGED <<noise, now, clock, rafQueue, rafSeq, animId, cleaned, mouseRef,
                   pointerInside, prevMouseWorldPosRef, clickStateRef, clickTimerRef,
                   timers, timerSeq, lastColorIndexRef, uClickColor,
                   squidState, uTurn, trailIdx, trail, trailSeq, bubbleIdx, bubbles,
                   bubbleSeq, ticks, frame>>

\* cancelAnimationFrame(id), line 1182
CancelFrame(queue, id) == queue \ {id}

\* The effect cleanup without the clearTimeout of line 1197.
CleanupKeepsTimer ==
    /\ ~cleaned
    /\ cleaned' = TRUE
    /\ rafQueue' = CancelFrame(rafQueue, animId)
    /\ UNCHANGED <<noise, now, clock, rafSeq, animId, mouseRef, pointerInside,
                   prevMouseWorldPosRef, followRef, clickStateRef, clickTimerRef,
                   timers, timerSeq, lastColorIndexRef, uClickColor, clickLog,
                   squidState, uTurn, trailIdx, trail, trailSeq, bubbleIdx, bubbles,
                   bubbleSeq, ticks, frame, events>>

\* The effect cleanup, lines 1181-1198.
Cleanup ==
    /\ ~cleaned
    /\ cleaned' = TRUE
    /\ rafQueue' = CancelFrame(rafQueue, animId)
    /\ timers' = ClearClickTimer(timers, clickTimerRef)
    /\ UNCHANGED <<noise, now, clock, rafSeq, animId, mouseRef, pointerInside,
                   prevMouseWorldPosRef, followRef, clickStateRef, clickTimerRef,
                   timerSeq, lastColorIndexRef, uClickColor, clickLog, squidState,
                   uTurn, trailIdx, trail, trailSeq, bubbleIdx, bubbles, bubbleSeq,
                   ticks, frame, events>>

\* d ms pass.  A due expiry callback runs before the clock moves on.
Elapse(d) ==
    /\ \A t \in timers : now + d <= t.due
    /\ now' = now + d
    /\ UNCHANGED <<noise, clock, rafQueue, rafSeq, animId, cleaned, mouseRef, pointerInside,
                   prevMouseWorldPosRef, followRef, clickStateRef, clickTimerRef,
                   timers, timerSeq, lastColorIndexRef, uClickColor, clickLog,
                   squidState, uTurn, trailIdx, trail, trailSeq, bubbleIdx, bubbles,
                   bubbleSeq, ticks, frame, events>>

\* A frame runs later than the frame before it: only the first getDelta()
\* returns 0.
FrameDue == ~clock.running \/ now > clock.oldTime

---------------------------------------------------------------------------
(* Spec: every handler, over a short horizon.                              *)

\* The draws of a frame.  wy = 500 keeps wander targets in the plane y = 0.
Draw(wander, wx, wz, burst, jit, amp, size) ==
    [wander |-> wander, wx |-> wx, wy |-> 500, wz |-> wz, burst |-> burst,
     jit |-> jit, amp |-> amp, size |-> size]

Draws == {Draw(0, 0, 999, 0, 0, 999, 0), Draw(500, 999, 500, 500, 999, 999, 999)}

\* Pointer positions <<clientX, clientY>>.  The row 500 is the middle of the
\* window; the column -100 is outside it (reported while a button is held).
Pointers == {<<500, 500>>, <<900, 500>>, <<-100, 500>>}

TimeSteps == {1500}

Tick == ticks < MaxTicks /\ FrameDue /\ \E f \in rafQueue : \E rnd \in Draws : Animate(f, rnd)
MouseMove == events < MaxEvents /\ \E e \in Pointers : HandleMouseMove(e[1], e[2])
Leave == events < MaxEvents /\ PointerLeave
Click == events < MaxEvents /\ \E hit \in BOOLEAN : \E i \in 0 .. 3 : HandleClick(hit, i)
DblClick == events < MaxEvents /\ HandleDblClick
Expire == \E t \in timers : ClickExpiry(t)
Pass == \E d \in TimeSteps : now + d <= MaxTime /\ Elapse(d)

Next == Tick \/ MouseMove \/ Leave \/ Click \/ DblClick \/ Expire \/ Cleanup \/ Pass

Spec == Init /\ [][Next]_vars

---------------------------------------------------------------------------
(* SpecRing: the long run.  Frames are 16 ms apart and, after the first    *)
(* WarmupTicks frames, the pointer has moved before every frame, so both   *)
(* rings fill and wrap.                                                    *)

RingDraws == {Draw(500, 999, 500, 500, 0, 999, 999)}
RingPointers == {<<480, 500>>, <<520, 500>>}

PointerMoved == MouseWorldPos(mouseRef) # prevMouseWorldPosRef

RingTick ==
    /\ ticks < MaxRingTicks
    /\ FrameDue
    /\ ticks < WarmupTicks \/ PointerMoved
    /\ \E f \in rafQueue : \E rnd \in RingDraws : Animate(f, rnd)
RingMouseMove ==
    /\ ~PointerMoved
    /\ \E e \in RingPointers : HandleMouseMove(e[1], e[2])
    /\ MouseWorldPos(mouseRef') # prevMouseWorldPosRef
RingPass == clock.running /\ now = clock.oldTime /\ Elapse(16)

NextRing == RingTick \/ RingMouseMove \/ RingPass

SpecRing == Init /\ [][NextRing]_vars

---------------------------------------------------------------------------
(* SpecHover: the speed update of animate() (lines 983-1029) iterated from *)
(* speed = 2.0 with hoverVal = 1.0 and the pointer held on the creature,   *)
(* in one steering mode per run: following at a given distance, or         *)
(* wandering.                                                              *)

HoverDistances == {0, 500, 999, 1000, 1500, 2000, 2001, 4000}

InitHover ==
    /\ InitRefs
    /\ squidState = [InitSquid EXCEPT !.speed = 20000, !.hoverVal = 10000]
    /\ \E fol \in BOOLEAN : \E d \in HoverDistances :
          frame = [InitFrame EXCEPT !.following = fol, !.distToMouse = d]

HoverTick ==
    LET hoverVal    == Blend(squidState.hoverVal, 10000, 10)
        baseSpeed   == IF frame.following THEN FollowSpeed(frame.distToMouse) ELSE 8000
        targetSpeed == HoverCap(hoverVal, baseSpeed)
    IN  /\ ticks < MaxHoverTicks
        /\ squidState' = [squidState EXCEPT
                             !.hoverVal = hoverVal,
                             !.speed = SmoothSpeed(squidState.speed, targetSpeed)]
        /\ frame' = [frame EXCEPT !.baseSpeed = baseSpeed, !.targetSpeed = targetSpeed,
                                  !.speedIn = squidState.speed]
        /\ ticks' = ticks + 1
        /\ UNCHANGED <<noise, now, clock, rafQueue, rafSeq, animId, cleaned, mouseRef,
                       pointerInside, prevMouseWorldPosRef, followRef, clickStateRef,
                       clickTimerRef, timers, timerSeq, lastColorIndexRef,
                       uClickColor, clickLog, uTurn, trailIdx, trail, trailSeq,
                       bubbleIdx, bubbles, bubbleSeq, events>>

SpecHover == InitHover /\ [][HoverTick]_vars

---------------------------------------------------------------------------
(* SpecDrift: the pointer is parked to the right of the window before the  *)
(* first frame (a drag that left the window) and the frames are 100 ms     *)
(* apart, so the creature wanders for seconds, passes under the parked     *)
(* pointer and may burst.  Once the creature glows under the pointer       *)
(* (hoverVal > 0.6) the user may move the pointer or double-click.         *)

DriftDraws == {Draw(500, 999, 500, 0, 0, 999, 999), Draw(500, 999, 500, 500, 0, 999, 999)}

Glows == squidState.hoverVal > 6000

DriftTick == ticks < MaxDriftTicks /\ FrameDue /\ \E f \in rafQueue : \E rnd \in DriftDraws : Animate(f, rnd)
DriftPark == ticks = 0 /\ events = 0 /\ HandleMouseMove(1100, 500)
DriftMouseMove == events < MaxDriftEvents /\ Glows /\ \E e \in Pointers : HandleMouseMove(e[1], e[2])
DriftDblClick == events < MaxDriftEvents /\ Glows /\ HandleDblClick
DriftPass == clock.running /\ now = clock.oldTime /\ Elapse(100)

NextDrift == DriftTick \/ DriftPark \/ DriftMouseMove \/ DriftDblClick \/ DriftPass

SpecDrift == Init /\ [][NextDrift]_vars

---------------------------------------------------------------------------
(* SpecFlip: the steering and drift of animate() (lines 1035-1080) iterated *)
(* on a wandering creature whose target is 40 units directly behind it,    *)
(* for as long as the antiparallel branch (line 1056) is taken, with       *)
(* frames 16 ms apart.  The orientation is not restricted to the plane:    *)
(* squidState.rotation is its turn about the up axis and squidState.pitch  *)
(* the elevation of its forward vector, both in 1/10 degree.               *)
(*                                                                         *)
(* In the antiparallel branch idealQ = Q * ws.rotation, with Q the half    *)
(* turn about (0,1,0).  The quaternions ws.rotation and idealQ have dot    *)
(* product Re(Q) = cos(pi/2) = 0, so Quaternion.slerp(idealQ, t) gives     *)
(* sin((1-t) pi/2) ws.rotation + sin(t pi/2) Q ws.rotation, which is       *)
(* (cos(t pi/2) + sin(t pi/2) (0,1,0)) ws.rotation: ws.rotation followed   *)
(* by a turn of t * 180 degrees about the world's up axis.  It adds        *)
(* t * 180 degrees to the turn about the up axis and leaves the elevation. *)

\* (0, 0, 1).applyQuaternion(rotation) for an orientation with the given
\* elevation, in 1/1000.
Forward3(rotation, pitch) ==
    Vec(Round(Cos(pitch) * Sin(rotation), 1000), Sin(pitch),
        Round(Cos(pitch) * Cos(rotation), 1000))

\* Lines 1035 and 1054: prevFwd.dot(direction) for a forward vector f, in
\* 1/1000.
ForwardDot3(f, position, target) ==
    LET d == Vec(target.x - position.x, target.y - position.y, target.z - position.z)
        n == f.x * d.x + f.y * d.y + f.z * d.z
        l == DistanceTo(target, position)
    IN  IF l = 0 THEN 0 ELSE IF n < 0 THEN -Round(-n, l) ELSE Round(n, l)

\* Lines 1071-1077 for a forward vector f.
DriftAlong(velocity, f, speed) ==
    LET D(c) == Round(c * speed * 8, 100000)
    IN  Vec(Blend(velocity.x, D(f.x), 5), Blend(velocity.y, D(f.y), 5),
            Blend(velocity.z, D(f.z), 5))

FlipYaws == {0, 300, 600, 900, 1200, 1500, 1800, 2100, 2400, 2700, 3000, 3300}
FlipPitches == {-900, -870, -450, 0, 450, 870, 900}

InitFlip ==
    /\ InitRefs
    /\ frame = InitFrame
    /\ \E yaw \in FlipYaws : \E p \in FlipPitches :
          LET f == Forward3(yaw, p)
          IN  squidState = [speed |-> 8000, turnSpeed |-> 30, rotation |-> yaw,
                            pitch |-> p, position |-> Vec(0, 0, 0),
                            velocity |-> Vec(0, 0, 0),
                            target |-> Vec(-4 * f.x, -4 * f.y, -4 * f.z),
                            hoverVal |-> 0, burstTimer |-> 0]

FlipTick ==
    LET ws        == squidState
        dot       == ForwardDot3(Forward3(ws.rotation, ws.pitch), ws.position, ws.target)
        \* lines 1049-1050: the angle is above 1.0 when dot < -0.99
        effective == ws.turnSpeed \div 2
        rotation  == Norm360(ws.rotation + Round(1800 * effective, 1000))
        speed     == SmoothSpeed(ws.speed, 8000)
        velocity  == DriftAlong(ws.velocity, Forward3(rotation, ws.pitch), speed)
    IN  /\ ticks < MaxFlipTicks
        /\ dot < -990
        /\ squidState' = [ws EXCEPT !.rotation = rotation, !.speed = speed,
                                    !.velocity = velocity,
                                    !.position = Move(ws.position, velocity, 16)]
        /\ frame' = [frame EXCEPT !.dt = 16, !.dot = dot, !.rotationIn = ws.rotation,
                                  !.angle = 1800, !.baseSpeed = 8000,
                                  !.targetSpeed = 8000, !.speedIn = ws.speed]
        /\ ticks' = ticks + 1
        /\ UNCHANGED <<noise, now, clock, rafQueue, rafSeq, animId, cleaned, mouseRef,
                       pointerInside, prevMouseWorldPosRef, followRef, clickStateRef,
                       clickTimerRef, timers, timerSeq, lastColorIndexRef,
                       uClickColor, clickLog, uTurn, trailIdx, trail, trailSeq,
                       bubbleIdx, bubbles, bubbleSeq, events>>

SpecFlip == InitFlip /\ [][FlipTick]_vars

---------------------------------------------------------------------------
(* SpecNoise: the evaluation of the noise module, one loop iteration a     *)
(* step, followed by noise3D calls.                                        *)

AllCells == {Num(n) : n \in 0 .. 255}
EdgeCells == {Num(-1), Num(254), Num(256), Num(-1000000), NotFinite}
FewCells == {Num(-1), Num(256), NotFinite}

componentState ==
    <<now, clock, rafQueue, rafSeq, animId, cleaned, mouseRef, pointerInside,
      prevMouseWorldPosRef, followRef, clickStateRef, clickTimerRef, timers,
      timerSeq, lastColorIndexRef, uClickColor, clickLog, squidState, uTurn,
      trailIdx, trail, trailSeq, bubbleIdx, bubbles, bubbleSeq, ticks, frame,
      events>>

Fill == NoiseFill /\ UNCHANGED componentState
Shuffle == NoiseShuffle /\ UNCHANGED componentState
Copy == NoiseCopy /\ UNCHANGED componentState
Lookup ==
    /\ noise.calls < MaxLookups
    /\ \E x \in AllCells \cup EdgeCells : \E y \in FewCells : \E z \in FewCells :
          Noise3D(x, y, z)
    /\ UNCHANGED componentState

NextNoise == Fill \/ Shuffle \/ Copy \/ Lookup

SpecNoise == Init /\ [][NextNoise]_vars

---------------------------------------------------------------------------
(* SpecBubbles: a few frames 16 ms or 50 ms apart between which the       *)
(* pointer rests, creeps, moves, sweeps 10 units or is outside the window. *)

BubbleDraws == {Draw(500, 999, 500, 500, 0, 999, 0), Draw(500, 999, 500, 500, 999, 999, 999)}

\* The column 501 is 0.05 units from the middle column 500, 510 is 0.5 units
\* and 701 is 9.99 units from it; -100 is outside the window.
BubblePointers == {<<500, 500>>, <<501, 500>>, <<510, 500>>, <<701, 500>>, <<-100, 500>>}

BubbleTick == ticks < MaxBubbleTicks /\ FrameDue /\ \E f \in rafQueue : \E rnd \in BubbleDraws : Animate(f, rnd)
BubbleMouseMove == events < MaxBubbleEvents /\ \E e \in BubblePointers : HandleMouseMove(e[1], e[2])
BubbleDblClick == events < MaxBubbleEvents /\ HandleDblClick
BubblePass == \E d \in {16, 50} : now + d <= MaxBubbleTime /\ Elapse(d)

NextBubbles == BubbleTick \/ BubbleMouseMove \/ BubbleDblClick \/ BubblePass

SpecBubbles == Init /\ [][NextBubbles]_vars

---------------------------------------------------------------------------
(* The claims.                                                             *)

\* C1: once the shutdown procedure has run, animate() never runs again, so
\* no simulation, emission or render step happens afterwards, however many
\* frames ran before the shutdown.
C1_NoTickAfterShutdown == [][cleaned => ticks' = ticks]_vars

\* Both cursors and both buffers after a step are what n emissions make of
\* them: each emission steps the cursor by one modulo 3000 and writes the
\* slot the cursor then names, and no other slot changes.
RingStep(idx, seq, buf, idx2, seq2, buf2) ==
    LET n       == seq2 - seq
        written == {(idx + j) % 3000 : j \in 1 .. n}
    IN  /\ n >= 0
        /\ idx2 = (idx + n) % 3000
        /\ written \subseteq DOMAIN buf2
        /\ \A j \in 1 .. n : SeqOf(buf2[(idx + j) % 3000]) = seq + j
        /\ buf2 = [i \in written |-> buf2[i]] @@ buf

\* C2: the trail cursor and the bubble cursor always lie in 0 .. 2999, and
\* every emission first advances its cursor to (cursor + 1) mod 3000 and
\* then writes exactly that slot.
C2_CursorWraps ==
    /\ [](trailIdx \in 0 .. 2999 /\ bubbleIdx \in 0 .. 2999)
    /\ [][/\ RingStep(trailIdx, trailSeq, trail, trailIdx', trailSeq', trail')
          /\ RingStep(bubbleIdx, bubbleSeq, bubbles, bubbleIdx', bubbleSeq', bubbles')]_vars

\* The bubble cursor has gone round the ring and written past slot 0 again.
C2_Wrapped ==
    /\ bubbleSeq > 3000 /\ frame.emissionCount > 0
    /\ bubbleIdx = bubbleSeq - 3000 /\ trailIdx = trailSeq

\* The emissions a buffer holds are the latest min(seq, 3000), one a slot.
Retained(buf, seq) ==
    /\ {SeqOf(buf[i]) : i \in DOMAIN buf} = (Max(0, seq - 3000) + 1) .. seq
    /\ Cardinality(DOMAIN buf) = Min(seq, 3000)

\* C3: each particle buffer holds exactly the most recent 3000 emissions (all
\* of them while fewer have been made); an emission into a full buffer is
\* never dropped or held back: every frame makes its two trail emissions and
\* its emissionCount bubble emissions, and the buffer then holds the latest.
C3_HoldsMostRecent ==
    /\ [](Retained(trail, trailSeq) /\ Retained(bubbles, bubbleSeq))
    /\ [][ticks' # ticks => /\ trailSeq' = trailSeq + 2
                            /\ bubbleSeq' = bubbleSeq + frame'.emissionCount]_vars

\* The bubble ring is full and a frame has overwritten its oldest entries:
\* the slot after the cursor holds the oldest emission kept.
C3_Overwriting ==
    /\ bubbleSeq > 3000 /\ Cardinality(DOMAIN bubbles) = 3000
    /\ SeqOf(bubbles[bubbleIdx]) = bubbleSeq
    /\ SeqOf(bubbles[(bubbleIdx + 1) % 3000]) = bubbleSeq - 2999

\* C4: while the component is mounted, the click pulse is active from a hit
\* click until exactly 3000 ms after the most recent hit click and inactive
\* from then on; a new hit click replaces the pending expiry, so at most one
\* expiry is pending and it is the one of the most recent hit click.
C4_PulseLifetime ==
    /\ Cardinality(timers) <= 1
    /\ \A t \in timers : /\ t.id = clickTimerRef
                         /\ t.due = clickLog.hitAt + 3000
                         /\ now <= t.due
                         /\ clickStateRef.active
    /\ timerSeq = 0 => ~clickStateRef.active /\ timers = {}
    /\ timerSeq > 0 /\ now < clickLog.hitAt + 3000 => clickStateRef.active
    /\ ~cleaned /\ clickStateRef.active => timers # {}
    /\ ~cleaned /\ timerSeq > 0 /\ now > clickLog.hitAt + 3000 => ~clickStateRef.active

\* A second hit click 1500 ms after the first one; the pulse has ended 3000 ms
\* after the second.
C4_SupersededExpired ==
    /\ timerSeq = 2 /\ clickLog.hitAt = 1500 /\ now = 4500
    /\ ~clickStateRef.active /\ timers = {}

\* C5: after shutdown no click-expiry timer is pending, and the active flag
\* is not changed any more.
C5_ShutdownClearsTimer ==
    /\ [](cleaned => timers = {})
    /\ [][cleaned => clickStateRef'.active = clickStateRef.active]_vars

\* Shutdown came during a pulse, and the time of its expiry has passed.
C5_ClearedWhilePending ==
    /\ cleaned /\ clickStateRef.active /\ clickTimerRef # 0 /\ timers = {}
    /\ now > clickLog.hitAt + 3000

\* C6: a hit click (the only step that starts a timer) selects a palette
\* colour that differs from the colour of the hit click before it.
C6_ColourDiffers ==
    [][timerSeq' # timerSeq =>
          /\ lastColorIndexRef' \in 0 .. 3
          /\ lastColorIndexRef' # lastColorIndexRef
          /\ uClickColor' = CLICK_COLORS[lastColorIndexRef' + 1]
          /\ uClickColor' # uClickColor]_vars

\* Two hit clicks; the second one chose the first palette colour.
C6_SecondTrigger == timerSeq = 2 /\ lastColorIndexRef = 0 /\ uClickColor = <<10, 0, 0>>

\* C7: a click whose hit test finds nothing changes neither the click pulse,
\* nor the click colour, nor the last colour index, nor any timer.
C7_MissChangesNothing ==
    [][clickLog'.n # clickLog.n /\ ~clickLog'.hit =>
          UNCHANGED <<clickStateRef, uClickColor, lastColorIndexRef, clickTimerRef,
                      timers, timerSeq>>]_vars

\* A miss click during a pulse, and a miss click with no pulse.
C7_MissDuringPulse ==
    /\ clickLog.n = 2 /\ ~clickLog.hit /\ timerSeq = 1
    /\ clickStateRef.active /\ timers # {}

\* C8: in a frame whose smoothed hover level is above 0.6, the target speed
\* used by that frame's speed update is at most 0.6, whatever the steering
\* mode and the distance, and the frame does not burst.
C8_HoverCaps ==
    ticks > 0 /\ squidState.hoverVal > 6000 =>
        /\ frame.targetSpeed <= 6000
        /\ ~frame.burst
        /\ squidState.speed
              = frame.speedIn + Round((frame.targetSpeed - frame.speedIn) * 5, 100)

\* The hover level is above 0.6 in a frame that would have burst: follow-mode
\* on, pointer inactive, more than 5 s since the last burst, draw below 0.01;
\* the wander speed 0.8 is capped to 0.6.
C8_CappedInsteadOfBurst ==
    /\ squidState.hoverVal > 6000
    /\ frame.follow /\ ~frame.isMouseActive
    /\ squidState.burstTimer > 5000 /\ frame.burstDraw < 10
    /\ frame.baseSpeed = 8000 /\ frame.targetSpeed = 6000 /\ ~frame.burst

\* speed is within 0.01 of s.
Near(s) == Abs(squidState.speed - s) <= 100

\* C9 as stated: from speed 2.0 with the hover level held at 1.0, after 100
\* frames speed is within 0.01 of 0.6 and stays there, in every steering mode.
C9_SettlesAtCap == ticks >= 100 => Near(6000)

\* C9: from speed 2.0 with the hover level held at 1.0, after 100 frames
\* speed is within 0.01 of 0.6 and stays there when wandering or following
\* at a distance of 10 or more; following at a distance below 10 it is
\* within 0.01 of 0.5 and stays there.
C9_SettlesAtCapOrBelow ==
    /\ squidState.hoverVal = 10000
    /\ ticks >= 100 =>
          IF frame.following /\ frame.distToMouse < 1000 THEN Near(5000) ELSE Near(6000)

\* Following from less than 10 away: settled at 0.5, outside the band of 0.6.
C9_SettledNear ==
    /\ ticks >= 100 /\ frame.following /\ frame.distToMouse < 1000
    /\ frame.targetSpeed = 5000 /\ Near(5000) /\ ~Near(6000)

\* C10: a frame follows the pointer exactly when follow-mode is on and the
\* pointer is active (both coordinates within [-1, 1]), and then the target
\* is the pointer's world position; before any pointer-move event the
\* pointer is inactive; once the pointer has left the viewport or
\* follow-mode is off, the frame wanders.
C10_FollowsWhilePointerInViewport ==
    /\ events = 0 => ~IsMouseActive(mouseRef)
    /\ ticks > 0 =>
          /\ frame.following <=>
                (frame.follow /\ Abs(frame.mouse.x) <= 1000 /\ Abs(frame.mouse.y) <= 1000)
          /\ frame.following => squidState.target = frame.mouseWorldPos
          /\ ~frame.follow => ~frame.following
          /\ ~frame.pointerInside => ~frame.following

\* C11: a wandering frame (pointer inactive, or follow-mode off) with more
\* than 5 s on the burst timer, a hover level not above 0.6 and a burst draw
\* below 0.01 bursts, and a burst raises the frame's target speed to 2.5.
C11_WanderingBursts ==
    ticks > 0 =>
        /\ (/\ ~frame.following
            /\ frame.burstTimer > 5000
            /\ squidState.hoverVal <= 6000
            /\ frame.burstDraw < 10) => frame.burst
        /\ frame.burst => frame.targetSpeed = 25000

\* C12: a double-click changes follow-mode and nothing else of the program's
\* state, and follow-mode is on exactly after an even number of double-clicks.
C12_DblClickTogglesFollow ==
    /\ [](followRef <=> clickLog.dbl % 2 = 0)
    /\ [][clickLog'.dbl # clickLog.dbl =>
             /\ followRef' = ~followRef
             /\ UNCHANGED <<now, clock, rafQueue, rafSeq, animId, cleaned, mouseRef,
                            prevMouseWorldPosRef, clickStateRef, clickTimerRef, timers,
                            timerSeq, lastColorIndexRef, uClickColor, squidState, uTurn,
                            trailIdx, trail, trailSeq, bubbleIdx, bubbles, bubbleSeq>>]_vars

\* Two double-clicks after a frame: follow-mode is back on.
C12_ToggledTwice ==
    /\ clickLog.dbl = 2 /\ followRef /\ ticks > 0

\* p is within d of q on every axis.
Within(p, q, d) == Abs(p.x - q.x) <= d /\ Abs(p.y - q.y) <= d /\ Abs(p.z - q.z) <= d

\* The point 8 units behind a creature at position pos heading at angle rot.
Behind(pos, rot) ==
    Vec(pos.x - Round(800 * Sin(rot), 1000), pos.y, pos.z - Round(800 * Cos(rot), 1000))

\* C13: every frame, in every steering mode, emits exactly 2 trail
\* particles: the trail cursor advances by 2 modulo 3000 and both slots get
\* the frame's time as birth time and a position within 0.75 per axis of the
\* point 8 units behind the creature's position and heading as the frame
\* has just updated them.
C13_TwoTrailParticles ==
    [][ticks' # ticks =>
          /\ trailSeq' = trailSeq + 2
          /\ trailIdx' = (trailIdx + 2) % 3000
          /\ \A j \in 1 .. 2 :
                LET particle == trail'[(trailIdx + j) % 3000]
                IN  /\ SeqOf(particle) = trailSeq + j
                    /\ BirthTimeOf(particle) = frame'.time
                    /\ Within(PosOf(particle),
                              Behind(squidState'.position, squidState'.rotation), 75)]_vars

\* A frame that burst while the creature was moving and turned, with its two
\* trail particles at the far end of the jitter.
C13_TrailInBurst ==
    /\ frame.burst /\ trailSeq = 2 * ticks
    /\ squidState.rotation # frame.rotationIn
    /\ PosOf(trail[trailIdx]).x = Behind(squidState.position, squidState.rotation).x - 75

\* C14: a frame emits between 0 and 10 bubbles, none unless the pointer is
\* active and follow-mode is on; when it is, with s the distance between the
\* previous and the current pointer world position over dt, it emits 0 when
\* s <= 2.0 and min(10, floor(s * 0.1)) when s > 2.0; a move of 10 units in
\* 0.05 s gives 10.
C14_BubbleCount ==
    /\ [](frame.emissionCount \in 0 .. 10 /\ EmissionCount(BubbleSpeed(1000, 50)) = 10)
    /\ [][ticks' # ticks =>
             LET n    == bubbleSeq' - bubbleSeq
                 dist == DistanceTo(frame'.mouseWorldPos, frame'.prevMouseWorldPos)
                 dt   == frame'.dt
             IN  /\ n = frame'.emissionCount
                 /\ ~(frame'.isMouseActive /\ frame'.follow) => n = 0
                 /\ frame'.isMouseActive /\ frame'.follow /\ dt > 0 =>
                       n = IF 5 * dist > dt THEN Min(10, dist \div dt) ELSE 0]_vars

\* The pointer swept 9.99 units in a frame of 0.05 s (199.8 units a second).
C14_Sweep ==
    /\ frame.dt = 50 /\ frame.emissionCount = 10
    /\ DistanceTo(frame.mouseWorldPos, frame.prevMouseWorldPos) = 999

\* C15: every bubble of a frame lies within 0.75 per axis of the segment from
\* the pointer's world position at the frame before to its world position at
\* this frame, the k-th of n at k/n, and has the frame's time as birth time;
\* so the pointer had a world position at the frame before.
C15_BubblesOnPointerPath ==
    [][ticks' # ticks =>
          LET n    == bubbleSeq' - bubbleSeq
              from == MouseWorldPos(frame.mouse)
              to   == MouseWorldPos(frame'.mouse)
          IN  n > 0 =>
                /\ ticks > 0 /\ frame.isMouseActive
                /\ \A k \in 0 .. n - 1 :
                      LET b == bubbles'[(bubbleIdx + k + 1) % 3000]
                      IN  /\ BirthTimeOf(b) = frame'.time
                          /\ Within(PosOf(b),
                                    Vec(from.x + ((to.x - from.x) * k) \div n,
                                        from.y + ((to.y - from.y) * k) \div n,
                                        from.z + ((to.z - from.z) * k) \div n), 76)]_vars

\* C16: the bubble emitter never divides by a zero dt: the pointer speed it
\* computes is a finite number, and a frame with dt = 0 emits no bubbles.
C16_SpeedGuarded ==
    /\ frame.speedKind \in {"none", "number"}
    /\ frame.dt = 0 => frame.emissionCount = 0

\* Whether slot i of a buffer is drawn by a frame at time uTime.
TrailSlotDrawn(i) == Drawn(TrailLife(frame.time, BirthOf(trail, i)))
BubbleSlotDrawn(i) == Drawn(BubbleLife(frame.time, BirthOf(bubbles, i)))

\* Slots that no step but an emission into them changes.
SlotsKept(idx, seq, buf, seq2, buf2) ==
    \A i \in DOMAIN buf :
        (\A j \in 1 .. seq2 - seq : i # (idx + j) % 3000) => buf2[i] = buf[i]

\* C17 as stated: a trail slot is drawn iff its age is at most 2 s, a bubble
\* slot iff its age is at most 0.25 s; a slot never written is not drawn.
C17_DrawnUpToLifetime ==
    ticks > 0 =>
        /\ \A i \in DOMAIN trail \cup {0} :
              TrailSlotDrawn(i) <=>
                 (i \in DOMAIN trail /\ frame.time - BirthTimeOf(trail[i]) <= 2000)
        /\ \A i \in DOMAIN bubbles \cup {0} :
              BubbleSlotDrawn(i) <=>
                 (i \in DOMAIN bubbles /\ frame.time - BirthTimeOf(bubbles[i]) <= 250)

\* C17: a trail slot is drawn iff it was written and its age is below 2 s, a
\* bubble slot iff it was written and its age is below 0.25 s; and no step
\* changes the position or birth time of a slot, dead or alive, other than
\* an emission into that slot.
C17_DrawnBelowLifetime ==
    /\ [](ticks > 0 =>
            /\ \A i \in DOMAIN trail \cup {0} :
                  TrailSlotDrawn(i) <=>
                     (i \in DOMAIN trail /\ frame.time - BirthTimeOf(trail[i]) < 2000)
            /\ \A i \in DOMAIN bubbles \cup {0} :
                  BubbleSlotDrawn(i) <=>
                     (i \in DOMAIN bubbles /\ frame.time - BirthTimeOf(bubbles[i]) < 250))
    /\ [][/\ SlotsKept(trailIdx, trailSeq, trail, trailSeq', trail')
          /\ SlotsKept(bubbleIdx, bubbleSeq, bubbles, bubbleSeq', bubbles')]_vars

\* A trail slot is exactly 2 s old and not drawn while the newest one is,
\* the first bubble slot is dead and still holds what was written, and slot
\* 0 of the trail was never written.
C17_DeadButKept ==
    /\ ticks > 0 /\ 0 \notin DOMAIN trail /\ ~TrailSlotDrawn(0)
    /\ \E i \in DOMAIN trail :
          frame.time - BirthTimeOf(trail[i]) = 2000 /\ ~TrailSlotDrawn(i)
    /\ TrailSlotDrawn(trailIdx)
    /\ 1 \in DOMAIN bubbles /\ frame.time - BirthTimeOf(bubbles[1]) > 250
    /\ ~BubbleSlotDrawn(1)

\* C18: in every frame that takes the antiparallel branch (dot < -0.99),
\* whatever the orientation, the new rotation is a valid one, the turn is
\* about the up axis (the elevation stays, the turn about the up axis
\* changes) and the forward vector after the frame differs from the one
\* before; the frame from forward +Z with the target directly behind is one
\* of them.
C18_BehindTurns ==
    [][ticks' = ticks + 1 =>
          /\ frame'.dot < -990
          /\ squidState'.rotation \in 0 .. 3599
          /\ squidState'.pitch = squidState.pitch
          /\ squidState'.rotation # squidState.rotation
          /\ Forward3(squidState'.rotation, squidState'.pitch)
                # Forward3(squidState.rotation, squidState.pitch)]_vars

\* What only a frame writes: the steering state, the turn uniform, the
\* clock, the previous pointer position and both ring buffers.
frameState ==
    <<squidState, uTurn, clock, prevMouseWorldPosRef, trailIdx, trail, trailSeq,
      bubbleIdx, bubbles, bubbleSeq>>

\* C19 as stated: a step that is not a frame (a pointer move, a click, a
\* double-click, the expiry callback) writes neither the steering state nor
\* the ring buffers nor any part of the click pulse.
C19_OnlyFramesWrite ==
    [][ticks' = ticks =>
          UNCHANGED <<frameState, clickStateRef, uClickColor, clickTimerRef>>]_vars

\* C19: a step that is not a frame writes neither the steering state nor
\* the ring-buffer cursors and slots nor the smoothed value of the click
\* pulse; of the click pulse the click handler and the expiry callback write
\* the active flag, and the click handler the colour and the timer.
C19_OnlyFramesWriteSmoothed ==
    [][/\ ticks' = ticks => UNCHANGED <<frameState, clickStateRef.value>>
       /\ clickStateRef'.active # clickStateRef.active => ticks' = ticks
       /\ uClickColor' # uClickColor => ticks' = ticks /\ clickLog'.n = clickLog.n + 1
       /\ clickTimerRef' # clickTimerRef => ticks' = ticks]_vars

\* The expiry callback has run between two frames: the pulse is no longer
\* active and its smoothed value is what the last frame left.
C19_ExpiredBetweenFrames ==
    /\ ticks > 0 /\ trailSeq > 0 /\ clickLog.hit /\ now >= clickLog.hitAt + CLICK_MS
    /\ ~clickStateRef.active /\ clickStateRef.value > 0 /\ timers = {}

\* C20: once the module is evaluated P holds every number of 0..255 (so,
\* having 256 entries, each once), PERM is P twice, and every index at
\* which a noise3D call reads PERM is in 0..511.
C20_TablesAndLookups ==
    /\ noise.pc \in {"shuffle", "copy", "ready"} =>
          {noise.P[k] : k \in 0 .. 255} = 0 .. 255
    /\ noise.pc = "ready" =>
          /\ DOMAIN noise.P = 0 .. 255 /\ DOMAIN noise.PERM = 0 .. 511
          /\ \A k \in 0 .. 255 :
                noise.PERM[k] = noise.P[k] /\ noise.PERM[k + 256] = noise.P[k]
          /\ noise.used \subseteq 0 .. 511

\* A noise3D call has read the last entry of PERM, from tables that the
\* shuffle has changed.
C20_LastEntryRead ==
    /\ noise.pc = "ready" /\ noise.calls > 0 /\ 511 \in noise.used
    /\ \E k \in 0 .. 255 : noise.P[k] # k

\* C21: a frame bursts only while wandering (not following the pointer)
\* and only with at least 5 s of frame time on the burst timer; the burst
\* sets the timer to 0, the timer of a frame that does not burst is the frame
\* time since the last burst (or since the start), and two bursts are at
\* least 5 s of frame time apart.
C21_BurstsSpaced ==
    /\ [](ticks > 0 /\ ~frame.burst =>
             squidState.burstTimer = frame.time - Max(frame.lastBurst, 0))
    /\ [][ticks' = ticks + 1 /\ frame'.burst =>
             /\ ~frame'.following
             /\ frame'.burstTimer >= 5000
             /\ squidState'.burstTimer = 0
             /\ frame'.time >= 5000
             /\ frame.lastBurst >= 0 => frame'.time - frame.lastBurst >= 5000]_vars

\* The second burst of a run.
C21_SecondBurst == frame.burst /\ frame.bursts = 2 /\ squidState.burstTimer = 0

\* C22: in every frame, a bursting one included, the new speed is the old
\* speed plus 0.05 times (target speed minus old speed).
C22_SpeedLags ==
    [][ticks' = ticks + 1 =>
          squidState'.speed
             = squidState.speed
                  + Round((frame'.targetSpeed - squidState.speed) * 5, 100)]_vars

\* C23: the target speed of a frame before the hover cap is 0.8 when not
\* following; when following it is 1.6 for a distance to the pointer above
\* 20, 0.5 for a distance below 10 and 1.2 otherwise, 10 and 20 included.
C23_SpeedTiers ==
    ticks > 0 =>
        /\ ~frame.following => frame.baseSpeed = 8000
        /\ frame.following /\ frame.distToMouse > 2000 => frame.baseSpeed = 16000
        /\ frame.following /\ frame.distToMouse < 1000 => frame.baseSpeed = 5000
        /\ frame.following /\ frame.distToMouse \in 1000 .. 2000 =>
              frame.baseSpeed = 12000

\* A following frame at a distance of exactly 20 takes the middle tier, which
\* the hover cap then lowers.
C23_ExactlyTwenty ==
    /\ ticks > 0 /\ frame.following /\ frame.distToMouse = 2000
    /\ frame.baseSpeed = 12000 /\ frame.targetSpeed = 6000

\* x2 is x moved a tenth of the way to target, and lies between the two.
TenthToward(x, target, x2) ==
    /\ x2 = x + Round((target - x) * 10, 100)
    /\ Min(x, target) <= x2 /\ x2 <= Max(x, target)

\* C24: the smoothed hover level and the smoothed click value are always in
\* [0,1]; a frame moves the hover level a tenth of the way to the hover
\* proximity, which is in [0,1], and the click value a tenth of the way to 1
\* when the pulse is active and to 0 otherwise, neither past its target; no
\* other step changes them.
C24_SmoothedInUnitRange ==
    /\ [](/\ squidState.hoverVal \in 0 .. 10000
          /\ clickStateRef.value \in 0 .. 10000)
    /\ [][IF ticks' = ticks + 1
          THEN /\ HoverStrength(squidState.position, mouseRef) \in 0 .. 10000
               /\ TenthToward(squidState.hoverVal,
                              HoverStrength(squidState.position, mouseRef),
                              squidState'.hoverVal)
               /\ TenthToward(clickStateRef.value,
                              IF clickStateRef.active THEN 10000 ELSE 0,
                              clickStateRef'.value)
          ELSE /\ squidState'.hoverVal = squidState.hoverVal
               /\ clickStateRef'.value = clickStateRef.value]_vars

\* After two frames the hover level has risen twice under the pointer and
\* the click value, risen in the first frame, has fallen in the second after
\* the pulse expired.
C24_RisenAndFallen ==
    /\ ticks = 2 /\ squidState.hoverVal > 1000
    /\ ~clickStateRef.active /\ clickStateRef.value \in 1 .. 999

\* C25: the creature's speed is always at least 0.5 and at most 2.5.
C25_SpeedInRange == squidState.speed \in 5000 .. 25000

\* The highest speed a frame leaves behind: a burst frame, 2.415 after its
\* own smoothing, in a run that had frames capped by the hover level and a
\* pointer event after them.
C25_AfterBurst ==
    /\ frame.burst /\ squidState.speed = 24150
    /\ events > 1

\* C26: a frame in which follow-mode is off or the pointer is inactive
\* emits no bubble (bubble cursor and slots unchanged) and still emits its 2
\* trail particles; every frame sets the recorded previous pointer position
\* to the frame's pointer world position (the origin when inactive); and in
\* every frame the trail buffer changes only by its trail emissions and the
\* bubble buffer only by its bubble emissions.
C26_EmittersApart ==
    [][ticks' = ticks + 1 =>
          /\ (~followRef \/ Abs(mouseRef.x) > 1000 \/ Abs(mouseRef.y) > 1000) =>
                UNCHANGED <<bubbleIdx, bubbles, bubbleSeq>>
          /\ trailSeq' = trailSeq + 2
          /\ RingStep(trailIdx, trailSeq, trail, trailIdx', trailSeq', trail')
          /\ bubbleSeq' = bubbleSeq + frame'.emissionCount
          /\ RingStep(bubbleIdx, bubbleSeq, bubbles, bubbleIdx', bubbleSeq', bubbles')
          /\ prevMouseWorldPosRef' = MouseWorldPos(mouseRef)
          /\ (Abs(mouseRef.x) > 1000 \/ Abs(mouseRef.y) > 1000) =>
                prevMouseWorldPosRef' = Vec(0, 0, 0)]_vars

\* The second frame ran with follow-mode off and the pointer active: the 10
\* bubbles of the first frame are all there is, the trail has 4 particles,
\* and the previous pointer position is this frame's.
C26_FollowOffFrame ==
    /\ ticks = 2 /\ ~frame.follow /\ frame.isMouseActive
    /\ frame.emissionCount = 0 /\ bubbleSeq = 10 /\ bubbleIdx = 10 /\ trailSeq = 4
    /\ prevMouseWorldPosRef = frame.mouseWorldPos

===========================================================================
